---------------------------- MODULE Spec2Model ----------------------------
(***************************************************************************)
(* Model of src/src/main.rs: the chunked broadcast aggregation pipeline.   *)
(*                                                                         *)
(* One distributor (the body of read_file_in_chunks) reads the line source *)
(* into batches and publishes them on a tokio broadcast channel of         *)
(* capacity 16; num_threads workers each receive the batches, fold them    *)
(* with process_chunk into their own map, and the distributor finally      *)
(* joins the workers, merges their maps and prints the report.             *)
(*                                                                         *)
(* Text is modelled as sequences of one-character strings.  An f64 is      *)
(* modelled as an exact number of tenths (the inputs drawn below have at   *)
(* most one fractional digit); a quotient is kept as a reduced fraction of *)
(* tenths, so floating-point rounding of sums is not modelled.             *)
(***************************************************************************)
EXTENDS Integers, Sequences, FiniteSets, TLC

\* Capacity of the broadcast channel (broadcast::channel(16)).
Capacity == 16

\* Bounds of the model: length of the enumerated short inputs, largest batch
\* size and largest worker count.
MaxLen == 2
MaxChunk == 2
MaxThreads == 2

-----------------------------------------------------------------------------
(* Text helpers *)

DigitChars == <<"0", "1", "2", "3", "4", "5", "6", "7", "8", "9">>

IsDigit(c) == \E d \in 1..10 : DigitChars[d] = c

DigitVal(c) == (CHOOSE d \in 1..10 : DigitChars[d] = c) - 1

\* Byte value of the characters that occur in keys (String's Ord is bytewise).
CharCode(c) ==
    CASE c = "O" -> 79 [] c = "T" -> 84 [] c = "a" -> 97 [] c = "b" -> 98
      [] c = "k" -> 107 [] c = "l" -> 108 [] c = "o" -> 111 [] c = "s" -> 115
      [] c = "y" -> 121 [] OTHER -> 0

RECURSIVE SplitFrom(_, _, _, _)
SplitFrom(line, i, cur, acc) ==
    IF i > Len(line) THEN Append(acc, cur)
    ELSE IF line[i] = ";" THEN SplitFrom(line, i + 1, <<>>, Append(acc, cur))
    ELSE SplitFrom(line, i + 1, Append(cur, line[i]), acc)

\* line.split(';').collect(): the fields between the separators; a line
\* without separator (the empty line too) gives one field.
Split(line) == SplitFrom(line, 1, <<>>, <<>>)

IsSpace(c) == c = " "

RECURSIVE TrimStart(_)
TrimStart(s) ==
    IF s # <<>> /\ IsSpace(Head(s)) THEN TrimStart(Tail(s)) ELSE s

RECURSIVE TrimEnd(_)
TrimEnd(s) ==
    IF s # <<>> /\ IsSpace(s[Len(s)]) THEN TrimEnd(SubSeq(s, 1, Len(s) - 1)) ELSE s

\* str::trim
Trim(s) == TrimEnd(TrimStart(s))

RECURSIVE NatOf(_, _)
NatOf(ds, acc) ==
    IF ds = <<>> THEN acc ELSE NatOf(Tail(ds), 10 * acc + DigitVal(Head(ds)))

AllDigits(s) == \A i \in 1..Len(s) : IsDigit(s[i])

\* Position of the first "." of s, Len(s) + 1 when there is none.
DotPos(s) ==
    IF \E i \in 1..Len(s) : s[i] = "."
    THEN CHOOSE i \in 1..Len(s) : s[i] = "." /\ \A j \in 1..(i - 1) : s[j] # "."
    ELSE Len(s) + 1

\* str::parse::<f64> on the decimal literals [+-]digits[.digits], the value
\* in tenths; anything else over the model's alphabet is a ParseFloatError.
\* (Exponents, "inf" and "nan" are outside the alphabet.)
ParseF64(s) ==
    LET signed == s # <<>> /\ Head(s) \in {"-", "+"}
        neg    == s # <<>> /\ Head(s) = "-"
        body   == IF signed THEN Tail(s) ELSE s
        dot    == DotPos(body)
        ip     == SubSeq(body, 1, dot - 1)
        fp     == SubSeq(body, dot + 1, Len(body))
        ok     == AllDigits(ip) /\ AllDigits(fp) /\ Len(ip) + Len(fp) > 0
        mag    == 10 * NatOf(ip, 0) + (IF fp = <<>> THEN 0 ELSE DigitVal(fp[1]))
    IN  IF ok THEN [ok |-> TRUE, val |-> IF neg THEN 0 - mag ELSE mag]
        ELSE [ok |-> FALSE, val |-> 0]

RECURSIVE NatDigits(_)
NatDigits(n) ==
    IF n < 10 THEN <<DigitChars[n + 1]>>
    ELSE Append(NatDigits(n \div 10), DigitChars[(n % 10) + 1])

Abs(x) == IF x < 0 THEN 0 - x ELSE x

\* "{:.1}" of a value given as the fraction num/den of tenths (den > 0):
\* rounded to the nearest tenth, ties to even, the sign of a negative value
\* kept.
FmtFrac(num, den) ==
    LET a == Abs(num)
        q == a \div den
        r == a % den
        t == IF 2 * r > den \/ (2 * r = den /\ q % 2 = 1) THEN q + 1 ELSE q
    IN  (IF num < 0 THEN <<"-">> ELSE <<>>)
          \o NatDigits(t \div 10) \o <<".", DigitChars[(t % 10) + 1]>>

RECURSIVE Gcd(_, _)
Gcd(a, b) == IF b = 0 THEN a ELSE Gcd(b, a % b)

\* sum / count as f64: an exact quotient, kept as a reduced fraction; a zero
\* count gives NaN, kept as 0/0.
Quot(sum, count) ==
    IF count = 0 THEN [num |-> 0, den |-> 0]
    ELSE LET g == Gcd(Abs(sum), count)
         IN  [num |-> sum \div g, den |-> count \div g]

RECURSIVE LexLess(_, _)
LexLess(s, t) ==
    IF t = <<>> THEN FALSE
    ELSE IF s = <<>> THEN TRUE
    ELSE IF Head(s) = Head(t) THEN LexLess(Tail(s), Tail(t))
    ELSE CharCode(Head(s)) < CharCode(Head(t))

\* The keys of a BTreeMap in iteration order.
RECURSIVE SortedKeys(_)
SortedKeys(S) ==
    IF S = {} THEN <<>>
    ELSE LET m == CHOOSE k \in S : \A o \in S \ {k} : LexLess(k, o)
         IN  <<m>> \o SortedKeys(S \ {m})

-----------------------------------------------------------------------------
(* Stat, ThreadData and process_chunk *)

\* An accumulator that starts from the identities of min and max.
StatIdentity == [min |-> 1000000, max |-> -1000000, sum |-> 0, count |-> 0]

\* Stat::default(): the derived Default, every field zero.
StatDefault == [min |-> 0, max |-> 0, sum |-> 0, count |-> 0]

\* Stat::new(value)
StatNew(value) == [min |-> value, max |-> value, sum |-> value, count |-> 1]

\* ThreadData::default(): an empty map.
EmptyData == [k \in {} |-> StatDefault]

\* An update that keeps the extremes of the first observation.
AndModifyFirstSeen(stat, value) ==
    [min   |-> stat.min,
     max   |-> stat.max,
     sum   |-> stat.sum + value,
     count |-> stat.count + 1]

\* The and_modify closure of process_chunk.
AndModify(stat, value) ==
    [min   |-> IF value < stat.min THEN value ELSE stat.min,
     max   |-> IF value > stat.max THEN value ELSE stat.max,
     sum   |-> stat.sum + value,
     count |-> stat.count + 1]

\* data.stat.entry(city).and_modify(..).or_insert(Stat::new(value))
Observe(stat, city, value) ==
    IF city \in DOMAIN stat
    THEN [stat EXCEPT ![city] = AndModify(stat[city], value)]
    ELSE [k \in DOMAIN stat \cup {city} |->
            IF k = city THEN StatNew(value) ELSE stat[k]]

\* A skip test that lets lines of more than two fields through.
SkipLineFewer(parts) == Len(parts) < 2

\* if parts.len() != 2 { continue; }
SkipLine(parts) == Len(parts) # 2

\* The loop of process_chunk from line j of the chunk on.  folded lists the
\* positions (within the chunk) of the lines that reached the entry update.
RECURSIVE ProcessFrom(_, _, _, _)
ProcessFrom(stat, chunk, j, folded) ==
    IF j > Len(chunk) THEN [stat |-> stat, err |-> FALSE, folded |-> folded]
    ELSE LET parts == Split(chunk[j])
         IN  IF SkipLine(parts)
             THEN ProcessFrom(stat, chunk, j + 1, folded)
             ELSE LET city  == parts[1]
                      value == ParseF64(Trim(parts[2]))
                  IN  IF ~value.ok
                      THEN [stat |-> stat, err |-> TRUE, folded |-> folded]
                      ELSE ProcessFrom(Observe(stat, city, value.val), chunk,
                                       j + 1, Append(folded, j))

\* A process_chunk whose loop starts one line late.
ProcessChunkSkipFirst(stat, chunk) == ProcessFrom(stat, chunk, 2, <<>>)

\* process_chunk(data, chunk, _): the map afterwards, whether it returned
\* Err, and the lines it folded.
ProcessChunk(stat, chunk) == ProcessFrom(stat, chunk, 1, <<>>)

-----------------------------------------------------------------------------
(* The merge and the report of read_file_in_chunks *)

\* A merge that overwrites the accumulator's sum and count.
MergeStatLast(stat, s) ==
    [min   |-> IF s.min < stat.min THEN s.min ELSE stat.min,
     max   |-> IF s.max > stat.max THEN s.max ELSE stat.max,
     sum   |-> s.sum,
     count |-> s.count]

\* One pass of the inner loop: fold worker s's Stat into the accumulator.
MergeStat(stat, s) ==
    [min   |-> IF s.min < stat.min THEN s.min ELSE stat.min,
     max   |-> IF s.max > stat.max THEN s.max ELSE stat.max,
     sum   |-> stat.sum + s.sum,
     count |-> stat.count + s.count]

\* The accumulator of a key after the first n entries of thread_datas.
RECURSIVE MergeKey(_, _, _)
MergeKey(key, tds, n) ==
    IF n = 0 THEN StatDefault
    ELSE LET acc == MergeKey(key, tds, n - 1)
         IN  IF key \in DOMAIN tds[n] THEN MergeStat(acc, tds[n][key]) ELSE acc

\* StatResult of a merged accumulator.
StatResultOf(stat) ==
    [min |-> stat.min, max |-> stat.max, mean |-> Quot(stat.sum, stat.count)]

\* The BTreeMap result built from keys and thread_datas.
Merge(ks, tds) == [k \in ks |-> StatResultOf(MergeKey(k, tds, Len(tds)))]

\* Display for StatResult: "{:.1}/{:.1}/{:.1}" of min, mean, max.
FmtStatResult(r) ==
    FmtFrac(r.min, 1) \o <<"/">> \o FmtFrac(r.mean.num, r.mean.den)
      \o <<"/">> \o FmtFrac(r.max, 1)

\* formatted: "key=min/mean/max" per entry, in key order.
Formatted(res) ==
    LET ks == SortedKeys(DOMAIN res)
    IN  [i \in 1..Len(ks) |-> ks[i] \o <<"=">> \o FmtStatResult(res[ks[i]])]

\* [String]::join
RECURSIVE JoinStr(_, _)
JoinStr(parts, sep) ==
    IF parts = <<>> THEN <<>>
    ELSE IF Len(parts) = 1 THEN parts[1]
    ELSE parts[1] \o sep \o JoinStr(Tail(parts), sep)

\* println!("Processed {} lines total", line_count)
ProcessedLine(n) == <<"Processed ">> \o NatDigits(n) \o <<" lines total">>

\* println!("{{{}}}", formatted.join(", "))
ReportLine(res) == <<"{">> \o JoinStr(Formatted(res), <<",", " ">>) \o <<"}">>

-----------------------------------------------------------------------------
(* The line source: what reader.lines() yields, Ok(line) or an I/O error *)

Ok(line) == [ok |-> TRUE, line |-> line]
IoErr == [ok |-> FALSE, line |-> <<>>]

LineA5 == <<"a", ";", "5">>
LineANeg3 == <<"a", ";", "-", "3">>
LineB2 == <<"b", ";", " ", "2">>
LineNoSep == <<"a", "b">>
LineThree == <<"b", ";", "2", ";", "5">>
LineBadNum == <<"a", ";", "x">>

LineSet == {LineA5, LineANeg3, LineB2, LineNoSep, LineThree, LineBadNum}

ItemSet == {Ok(l) : l \in LineSet} \cup {IoErr}

\* Every source of at most MaxLen items.
ShortInputs == UNION {[1..n -> ItemSet] : n \in 0..MaxLen}

\* Tokyo;10.0  Tokyo;20.0  Oslo;-5.0
Scenario ==
    << Ok(<<"T", "o", "k", "y", "o", ";", "1", "0", ".", "0">>),
       Ok(<<"T", "o", "k", "y", "o", ";", "2", "0", ".", "0">>),
       Ok(<<"O", "s", "l", "o", ";", "-", "5", ".", "0">>) >>

\* Sources of one line more than the channel holds: LineA5 throughout but
\* for one line, which is the first or the last.
LongLen == Capacity + 1

LongInputs ==
    {[i \in 1..LongLen |-> Ok(IF i = p THEN l ELSE LineA5)] :
        l \in {LineBadNum, LineB2}, p \in {1, LongLen}}

Inputs == ShortInputs \cup {Scenario} \cup LongInputs

-----------------------------------------------------------------------------
(* State *)

VARIABLES
    input,          \* the items the line source yields
    chunk_size,     \* parameter of read_file_in_chunks
    num_threads,    \* parameter of read_file_in_chunks
    mainpc,         \* where read_file_in_chunks / main stands
    readPos,        \* items of the source consumed so far
    chunk,          \* the batch buffer
    line_count,
    tail,           \* channel: position of the next value sent
    buffer,         \* channel: slot -> [pos, val]
    closed,         \* channel: every Sender dropped
    next,           \* per worker: rx2's next position
    wstate,         \* per worker: "running", "ok" (returned Ok(data)), "err"
    data,           \* per worker: its ThreadData
    joinIdx,        \* handles awaited so far
    keys,
    thread_datas,
    result,
    ret,            \* what read_file_in_chunks returned: "none", "ok", "err"
    stdout,
    stderr,
    recvErr,        \* history, per worker: the RecvError that ended its loop
    published,      \* history: the batches sent, in order
    received,       \* history, per worker: the batches recv returned
    applied         \* history, per worker: the source lines folded (by index)

vars == <<input, chunk_size, num_threads, mainpc, readPos, chunk, line_count,
          tail, buffer, closed, next, wstate, data, joinIdx, keys,
          thread_datas, result, ret, stdout, stderr, recvErr, published,
          received, applied>>

\* The thread ids i of the spawn loop.
Workers == 0..(num_threads - 1)

\* The state when the reading loop is entered: channel created and empty,
\* every worker spawned and subscribed at position 0.
Init ==
    /\ input \in Inputs
    /\ chunk_size \in 1..MaxChunk
    /\ num_threads \in 1..MaxThreads
    /\ mainpc = "reading"
    /\ readPos = 0
    /\ chunk = <<>>
    /\ line_count = 0
    /\ tail = 0
    /\ buffer = [i \in 0..(Capacity - 1) |-> [pos |-> i - Capacity, val |-> <<>>]]
    /\ closed = FALSE
    /\ next = [w \in Workers |-> 0]
    /\ wstate = [w \in Workers |-> "running"]
    /\ data = [w \in Workers |-> EmptyData]
    /\ joinIdx = 0
    /\ keys = {}
    /\ thread_datas = <<>>
    /\ result = EmptyData
    /\ ret = "none"
    /\ stdout = <<>>
    /\ stderr = <<>>
    /\ recvErr = [w \in Workers |-> "none"]
    /\ published = <<>>
    /\ received = [w \in Workers |-> <<>>]
    /\ applied = [w \in Workers |-> <<>>]

-----------------------------------------------------------------------------
(* The broadcast channel (tokio::sync::broadcast, as main.rs uses it) *)

\* tx.send(value): written over the oldest slot, never waiting.  _rx lives
\* to the end of read_file_in_chunks, so there is always a receiver and
\* send returns Ok.
SendBuffer(buf, t, value) ==
    [buf EXCEPT ![t % Capacity] = [pos |-> t, val |-> value]]

\* A recv that keeps waiting on a closed channel.
RecvResultNeverClosed(buf, t, isClosed, n) ==
    LET slot == buf[n % Capacity]
    IN  IF slot.pos = n THEN [kind |-> "ok", val |-> slot.val]
        ELSE IF slot.pos + Capacity = n THEN [kind |-> "empty", val |-> <<>>]
        ELSE [kind |-> "lagged", val |-> <<>>]

\* A recv that, once lagged, goes on from the oldest batch still held.
RecvResultResync(buf, t, isClosed, n) ==
    LET slot == buf[n % Capacity]
    IN  IF slot.pos = n THEN [kind |-> "ok", val |-> slot.val]
        ELSE IF slot.pos + Capacity = n
             THEN [kind |-> IF isClosed THEN "closed" ELSE "empty", val |-> <<>>]
             ELSE [kind |-> "ok", val |-> buf[t % Capacity].val]

\* rx2.recv() of a receiver at position n: the value at n, "empty" (it would
\* wait), "closed", or "lagged" when position n was overwritten.
RecvResult(buf, t, isClosed, n) ==
    LET slot == buf[n % Capacity]
    IN  IF slot.pos = n THEN [kind |-> "ok", val |-> slot.val]
        ELSE IF slot.pos + Capacity = n
             THEN [kind |-> IF isClosed THEN "closed" ELSE "empty", val |-> <<>>]
             ELSE [kind |-> "lagged", val |-> <<>>]

\* Lines sent before the batch at channel position p.
RECURSIVE LinesBefore(_, _)
LinesBefore(pub, p) ==
    IF p = 0 THEN 0 ELSE LinesBefore(pub, p - 1) + Len(pub[p])

-----------------------------------------------------------------------------
(* The workers: the task spawned per thread id *)

\* The process is alive: main has neither returned to the runtime's exit nor
\* panicked.
Alive == mainpc \notin {"exited", "panicked"}

\* One pass of `while let Ok(chunk) = rx2.recv().await` whose recv returns
\* Ok: process_chunk(&mut data, chunk, i)?, an Err ending the task.
WorkerProcess(w) ==
    /\ Alive
    /\ wstate[w] = "running"
    /\ LET r  == RecvResult(buffer, tail, closed, next[w])
           pc == ProcessChunk(data[w], r.val)
           base == LinesBefore(published, next[w])
       IN  /\ r.kind = "ok"
           /\ next' = [next EXCEPT ![w] = @ + 1]
           /\ data' = [data EXCEPT ![w] = pc.stat]
           /\ wstate' = [wstate EXCEPT ![w] = IF pc.err THEN "err" ELSE "running"]
           /\ received' = [received EXCEPT ![w] = Append(@, r.val)]
           /\ applied' = [applied EXCEPT ![w] =
                            @ \o [j \in 1..Len(pc.folded) |-> base + pc.folded[j]]]
    /\ UNCHANGED <<input, chunk_size, num_threads, mainpc, readPos, chunk,
                   line_count, tail, buffer, closed, joinIdx, keys,
                   thread_datas, result, ret, stdout, stderr, recvErr,
                   published>>

\* recv returns Err (Closed, or Lagged once the receiver's position has been
\* overwritten): the while-let ends and the task returns Ok(data).  rx2 is
\* dropped with the task, so its position is left as it is.
WorkerFinish(w) ==
    /\ Alive
    /\ wstate[w] = "running"
    /\ LET r == RecvResult(buffer, tail, closed, next[w])
       IN  /\ r.kind \in {"closed", "lagged"}
           /\ recvErr' = [recvErr EXCEPT ![w] = r.kind]
    /\ wstate' = [wstate EXCEPT ![w] = "ok"]
    /\ UNCHANGED <<input, chunk_size, num_threads, mainpc, readPos, chunk,
                   line_count, tail, buffer, closed, next, data, joinIdx, keys,
                   thread_datas, result, ret, stdout, stderr, published,
                   received, applied>>

-----------------------------------------------------------------------------
(* The distributor: the body of read_file_in_chunks, and main *)

\* A count that leaves out the lines process_chunk will skip.
CountTwoFieldLines(n, line) == IF Len(Split(line)) = 2 THEN n + 1 ELSE n

\* line_count += 1, for every line pushed.
CountLine(n, line) == n + 1

\* A test that lets the chunk grow one line past chunk_size.
ChunkOverfull(c, size) == Len(c) > size

\* if chunk.len() >= chunk_size
ChunkFull(c, size) == Len(c) >= size

\* One pass of `for line in reader.lines()`: line?, push, count, and the
\* send of a full chunk.
ReadLine ==
    /\ mainpc = "reading"
    /\ readPos < Len(input)
    /\ readPos' = readPos + 1
    /\ LET item == input[readPos + 1]
           full == Append(chunk, item.line)
       IN  IF ~item.ok
           THEN \* line? returns the error; tx is dropped with the frame
                /\ ret' = "err"
                /\ mainpc' = "returned"
                /\ closed' = TRUE
                /\ UNCHANGED <<chunk, line_count, tail, buffer, published>>
           ELSE /\ line_count' = CountLine(line_count, item.line)
                /\ IF ChunkFull(full, chunk_size)
                   THEN /\ buffer' = SendBuffer(buffer, tail, full)
                        /\ tail' = tail + 1
                        /\ published' = Append(published, full)
                        /\ chunk' = <<>>
                   ELSE /\ chunk' = full
                        /\ UNCHANGED <<tail, buffer, published>>
                /\ UNCHANGED <<ret, mainpc, closed>>
    /\ UNCHANGED <<input, chunk_size, num_threads, next, wstate, data, joinIdx,
                   keys, thread_datas, result, stdout, stderr, recvErr,
                   received, applied>>

\* A final send that does not test the chunk for emptiness.
SendRemainingAlways ==
    /\ mainpc = "reading"
    /\ readPos = Len(input)
    /\ mainpc' = "closing"
    /\ buffer' = [buffer EXCEPT ![tail % Capacity] = [pos |-> tail, val |-> chunk]]
    /\ tail' = tail + 1
    /\ published' = Append(published, chunk)
    /\ chunk' = <<>>
    /\ UNCHANGED <<input, chunk_size, num_threads, readPos, line_count, closed,
                   next, wstate, data, joinIdx, keys, thread_datas, result,
                   ret, stdout, stderr, recvErr, received, applied>>

\* After the loop: if !chunk.is_empty() { tx.send(chunk)?; }
SendRemaining ==
    /\ mainpc = "reading"
    /\ readPos = Len(input)
    /\ mainpc' = "closing"
    /\ IF chunk # <<>>
       THEN /\ buffer' = SendBuffer(buffer, tail, chunk)
            /\ tail' = tail + 1
            /\ published' = Append(published, chunk)
            /\ chunk' = <<>>
       ELSE UNCHANGED <<buffer, tail, published, chunk>>
    /\ UNCHANGED <<input, chunk_size, num_threads, readPos, line_count, closed,
                   next, wstate, data, joinIdx, keys, thread_datas, result,
                   ret, stdout, stderr, recvErr, received, applied>>

\* drop(tx)
DropSender ==
    /\ mainpc = "closing"
    /\ closed' = TRUE
    /\ mainpc' = "joining"
    /\ UNCHANGED <<input, chunk_size, num_threads, readPos, chunk, line_count,
                   tail, buffer, next, wstate, data, joinIdx, keys,
                   thread_datas, result, ret, stdout, stderr, recvErr,
                   published, received, applied>>

\* A join that takes an Err task for a finished one.
UnwrapNever(ws) == FALSE

\* handle.await.unwrap().unwrap() panics on a task that returned Err.
UnwrapPanics(ws) == ws = "err"

\* A join that does not wait for the task.
HandleAlwaysReady(ws) == TRUE

\* handle.await completes once the task has returned.
HandleReady(ws) == ws # "running"

\* One pass of `for handle in handles`: wait for the task, unwrap its
\* result, collect its keys and its ThreadData.
JoinHandle ==
    /\ mainpc = "joining"
    /\ joinIdx < num_threads
    /\ HandleReady(wstate[joinIdx])
    /\ IF UnwrapPanics(wstate[joinIdx])
       THEN /\ mainpc' = "panicked"
            /\ stderr' = Append(stderr, <<"thread 'main' panicked">>)
            /\ UNCHANGED <<joinIdx, keys, thread_datas>>
       ELSE /\ keys' = keys \cup DOMAIN data[joinIdx]
            /\ thread_datas' = Append(thread_datas, data[joinIdx])
            /\ joinIdx' = joinIdx + 1
            /\ UNCHANGED <<mainpc, stderr>>
    /\ UNCHANGED <<input, chunk_size, num_threads, readPos, chunk, line_count,
                   tail, buffer, closed, next, wstate, data, result, ret,
                   stdout, recvErr, published, received, applied>>

\* The merge loop over keys, filling the BTreeMap.
Reduce ==
    /\ mainpc = "joining"
    /\ joinIdx = num_threads
    /\ result' = Merge(keys, thread_datas)
    /\ mainpc' = "merged"
    /\ UNCHANGED <<input, chunk_size, num_threads, readPos, chunk, line_count,
                   tail, buffer, closed, next, wstate, data, joinIdx, keys,
                   thread_datas, ret, stdout, stderr, recvErr, published,
                   received, applied>>

\* The two println! of read_file_in_chunks and its Ok(()).
Report ==
    /\ mainpc = "merged"
    /\ stdout' = stdout \o <<ProcessedLine(line_count), ReportLine(result)>>
    /\ ret' = "ok"
    /\ mainpc' = "returned"
    /\ UNCHANGED <<input, chunk_size, num_threads, readPos, chunk, line_count,
                   tail, buffer, closed, next, wstate, data, joinIdx, keys,
                   thread_datas, result, stderr, recvErr, published, received,
                   applied>>

\* main's match on the result.
MainExit ==
    /\ mainpc = "returned"
    /\ mainpc' = "exited"
    /\ IF ret = "ok"
       THEN /\ stdout' = Append(stdout, <<"File processed successfully">>)
            /\ UNCHANGED stderr
       ELSE /\ stderr' = Append(stderr, <<"Error reading file: ">>)
            /\ UNCHANGED stdout
    /\ UNCHANGED <<input, chunk_size, num_threads, readPos, chunk, line_count,
                   tail, buffer, closed, next, wstate, data, joinIdx, keys,
                   thread_datas, result, ret, recvErr, published, received,
                   applied>>

Next ==
    \/ ReadLine
    \/ SendRemaining
    \/ DropSender
    \/ JoinHandle
    \/ Reduce
    \/ Report
    \/ MainExit
    \/ \E w \in Workers : WorkerProcess(w)
    \/ \E w \in Workers : WorkerFinish(w)

Spec == Init /\ [][Next]_vars

\* The steps of the main task.
MainStep ==
    ReadLine \/ SendRemaining \/ DropSender \/ JoinHandle \/ Reduce \/ Report
      \/ MainExit

\* The enabling condition of WorkerProcess(w): task w exists, is in its
\* loop, and its recv would return Ok.
CanProcess(w) ==
    /\ w \in Workers /\ Alive /\ wstate[w] = "running"
    /\ RecvResult(buffer, tail, closed, next[w]).kind = "ok"

\* Weak fairness of WorkerProcess(w), written out over its enabling
\* condition: a task that could take a batch for ever eventually takes one.
FairProcess(w) ==
    []<>(~CanProcess(w)) \/ []<><<w \in Workers /\ WorkerProcess(w)>>_vars

\* The runtime is multi-threaded (#[tokio::main]): the main task and every
\* spawned task that can run is eventually run.
FairSpec ==
    /\ Spec
    /\ WF_vars(MainStep)
    /\ \A w \in 0..(MaxThreads - 1) :
         WF_vars(w \in Workers /\ WorkerFinish(w)) /\ FairProcess(w)

-----------------------------------------------------------------------------
(* Reference computations used by the properties *)

\* The batches the reading loop sends for a source without read error:
\* the loop and the final send, as a function of the lines.
RECURSIVE ChunkFrom(_, _, _, _, _)
ChunkFrom(lines, i, cur, acc, size) ==
    IF i > Len(lines) THEN (IF cur # <<>> THEN Append(acc, cur) ELSE acc)
    ELSE LET full == Append(cur, lines[i])
         IN  IF Len(full) >= size
             THEN ChunkFrom(lines, i + 1, <<>>, Append(acc, full), size)
             ELSE ChunkFrom(lines, i + 1, full, acc, size)

Batches(lines, size) == ChunkFrom(lines, 1, <<>>, <<>>, size)

\* A worker's loop over batches it receives one after the other, none
\* missed: its map, and whether process_chunk returned Err.
RECURSIVE RunWorker(_, _, _)
RunWorker(stat, batches, n) ==
    IF n > Len(batches) THEN [stat |-> stat, err |-> FALSE]
    ELSE LET pc == ProcessChunk(stat, batches[n])
         IN  IF pc.err THEN [stat |-> pc.stat, err |-> TRUE]
             ELSE RunWorker(pc.stat, batches, n + 1)

AllRead == \A i \in 1..Len(input) : input[i].ok

InputLines == [i \in 1..Len(input) |-> input[i].line]

IsTwoFields(line) == Len(Split(line)) = 2

HasNumber(line) == ParseF64(Trim(Split(line)[2])).ok

WellFormed(line) == IsTwoFields(line) /\ HasNumber(line)

KeyOf(line) == Split(line)[1]

ValOf(line) == ParseF64(Trim(Split(line)[2])).val

Range(f) == {f[i] : i \in DOMAIN f}

\* The read_file_in_chunks call has produced its merged result.
Merged == mainpc \in {"merged", "returned", "exited"} /\ ret # "err"

\* The run is over.
Ended == mainpc \in {"exited", "panicked"}

\* The run failed: main panicked or read_file_in_chunks returned Err.
Failed == mainpc = "panicked" \/ ret = "err"

\* Values of key k among the well-formed lines.
ValuesAt(lines, k) ==
    {i \in 1..Len(lines) : WellFormed(lines[i]) /\ KeyOf(lines[i]) = k}

RECURSIVE SumAt(_, _)
SumAt(lines, idx) ==
    IF idx = {} THEN 0
    ELSE LET i == CHOOSE j \in idx : TRUE
         IN  ValOf(lines[i]) + SumAt(lines, idx \ {i})

MinAt(lines, idx) ==
    CHOOSE v \in {ValOf(lines[i]) : i \in idx} :
        \A i \in idx : v <= ValOf(lines[i])

MaxAt(lines, idx) ==
    CHOOSE v \in {ValOf(lines[i]) : i \in idx} :
        \A i \in idx : v >= ValOf(lines[i])

\* "{Oslo=-5.0/-5.0/-5.0, Tokyo=10.0/15.0/20.0}"
ScenarioReport ==
    << "{", "O", "s", "l", "o", "=", "-", "5", ".", "0", "/", "-", "5", ".",
       "0", "/", "-", "5", ".", "0", ",", " ", "T", "o", "k", "y", "o", "=",
       "1", "0", ".", "0", "/", "1", "5", ".", "0", "/", "2", "0", ".", "0",
       "}" >>

-----------------------------------------------------------------------------
(* Properties *)

\* C1: on a successful run over well-formed lines the merged result holds,
\* for every key of the input, the smallest value, the largest value and
\* sum / count of the key's values; and the scenario Tokyo;10.0, Tokyo;20.0,
\* Oslo;-5.0 with batch size 2 and 2 workers reports
\* {Oslo=-5.0/-5.0/-5.0, Tokyo=10.0/15.0/20.0}.
C1_MergedIsMinMaxMean ==
    (Merged /\ AllRead /\ \A i \in 1..Len(input) : WellFormed(input[i].line)) =>
        LET lines == InputLines
            ks == {KeyOf(lines[i]) : i \in 1..Len(lines)}
        IN  /\ DOMAIN result = ks
            /\ \A k \in ks :
                 LET idx == ValuesAt(lines, k)
                 IN  /\ result[k].min = MinAt(lines, idx)
                     /\ result[k].max = MaxAt(lines, idx)
                     /\ result[k].mean = Quot(SumAt(lines, idx), Cardinality(idx))
            /\ (input = Scenario /\ chunk_size = 2 /\ num_threads = 2
                  /\ Len(stdout) >= 2) => stdout[2] = ScenarioReport


IsPrefix(s, t) == Len(s) <= Len(t) /\ SubSeq(t, 1, Len(s)) = s

\* C2: every worker receives every published batch exactly once and in
\* publication order, and no batch is overwritten before a subscribed worker
\* has read it: a running worker is never more than Capacity batches
\* behind, what a worker received is a prefix of what was published, and a
\* worker that returned Ok has received all of it.
C2_EveryBatchDelivered ==
    \A w \in Workers :
        /\ wstate[w] = "running" => tail - next[w] <= Capacity
        /\ IsPrefix(received[w], published)
        /\ wstate[w] = "ok" => received[w] = published

\* Times worker w folded source line i.
TimesBy(w, i) == Cardinality({j \in 1..Len(applied[w]) : applied[w][j] = i})

RECURSIVE TimesUpTo(_, _)
TimesUpTo(i, n) == IF n = 0 THEN 0 ELSE TimesUpTo(i, n - 1) + TimesBy(n - 1, i)

\* Times source line i was folded, over all workers.
TimesApplied(i) == TimesUpTo(i, num_threads)

\* C3 as stated: on a finished merge every well-formed line was folded
\* exactly once over all workers together.
C3_AppliedOnceOverall ==
    Merged =>
        \A i \in 1..Len(input) :
            WellFormed(input[i].line) => TimesApplied(i) = 1

\* Lines published so far.
PublishedLines == LinesBefore(published, Len(published))

\* C3 amended: each worker folds a line at most once, so a line is folded at
\* most num_threads times over all workers; a worker whose loop ended on
\* channel closure has folded every well-formed published line exactly once
\* and no other line.
C3_AppliedOncePerWorker ==
    /\ \A w \in Workers : \A i \in 1..Len(input) : TimesBy(w, i) <= 1
    /\ \A i \in 1..Len(input) : TimesApplied(i) <= num_threads
    /\ \A w \in Workers :
         (wstate[w] = "ok" /\ recvErr[w] = "closed") =>
            \A i \in 1..Len(input) :
                TimesBy(w, i) =
                    IF i <= PublishedLines /\ WellFormed(input[i].line)
                    THEN 1 ELSE 0

\* A two-worker run has ended well with a line folded twice overall.
C3_Witness ==
    /\ mainpc = "exited" /\ ret = "ok" /\ num_threads = 2
    /\ \E i \in 1..Len(input) : WellFormed(input[i].line) /\ TimesApplied(i) = 2

\* The result of a one-worker run that receives every batch.
OneWorkerRun == RunWorker(EmptyData, Batches(InputLines, chunk_size), 1)

\* C4: the merged result of a run with any worker count is the merged
\* result of the one-worker run on the same input and batch size, for every
\* scheduling.
C4_SameAsOneWorker ==
    Merged =>
        /\ ~OneWorkerRun.err
        /\ result = Merge(DOMAIN OneWorkerRun.stat, <<OneWorkerRun.stat>>)

\* The outcome of a run with the given parameters in which every worker
\* receives every batch: a read error makes read_file_in_chunks return Err, a
\* worker's Err makes the join panic, else the two lines are printed.
SameParamsOutcome ==
    LET run == OneWorkerRun
        tds == [i \in 1..num_threads |-> run.stat]
    IN  IF ~AllRead THEN [end |-> "err", out |-> <<>>]
        ELSE IF run.err THEN [end |-> "panic", out |-> <<>>]
        ELSE [end |-> "ok",
              out |-> << ProcessedLine(Len(input)),
                         ReportLine(Merge(DOMAIN run.stat, tds)),
                         <<"File processed successfully">> >>]

\* C5: the outcome of a run (success or failure, line count, sorted report)
\* is fixed by the input, batch size and worker count, whatever the
\* scheduling.
C5_OutcomeDeterministic ==
    Ended =>
        [end |-> IF mainpc = "panicked" THEN "panic" ELSE ret, out |-> stdout]
            = SameParamsOutcome

HasBadNumber ==
    \E i \in 1..Len(input) :
        input[i].ok /\ IsTwoFields(input[i].line) /\ ~HasNumber(input[i].line)

\* C6: with a two-field line whose second field is no number anywhere in the
\* input, nothing is printed to stdout and a run that is over has failed.
C6_BadNumberFails ==
    HasBadNumber => (stdout = <<>> /\ ~Merged /\ (Ended => Failed))

\* C7: once a worker has ended with an error nothing is ever printed to
\* stdout and no merge is reached, a run that is over has failed, and Failed
\* is never left.
C7_WorkerErrorIsFatal ==
    /\ []((\E w \in Workers : wstate[w] = "err")
            => (stdout = <<>> /\ ~Merged /\ (Ended => Failed)))
    /\ [][Failed => (Failed' /\ stdout' = <<>>)]_vars

\* A worker ended with an error and main panicked at the join.
C7_Witness ==
    /\ mainpc = "panicked"
    /\ \E w \in Workers : wstate[w] = "err"
    /\ stdout = <<>>

\* The whole input folded as one batch.
WholeInputRun == ProcessChunk(EmptyData, InputLines)

\* C8: the merged result does not depend on the batch size: it is that of
\* the run with the same workers and the whole input in one batch.
C8_SameForAnyBatchSize ==
    Merged =>
        /\ ~WholeInputRun.err
        /\ result = Merge(DOMAIN WholeInputRun.stat,
                          [i \in 1..num_threads |-> WholeInputRun.stat])

\* C9: a key held by exactly one worker's final map is merged to that
\* worker's min and max and to its sum / count.
C9_SingleHolderKept ==
    Merged =>
        \A k \in keys :
            \A i \in 1..Len(thread_datas) :
                (/\ k \in DOMAIN thread_datas[i]
                 /\ \A o \in 1..Len(thread_datas) :
                        o # i => k \notin DOMAIN thread_datas[o]) =>
                    LET s == thread_datas[i][k]
                    IN  /\ result[k].min = s.min
                        /\ result[k].max = s.max
                        /\ result[k].mean = Quot(s.sum, s.count)

\* C10: a line that does not split into exactly two fields is skipped: a
\* worker's step on a batch leaves its map, and its error status, as if the
\* batch held only its two-field lines; a batch without any two-field line
\* leaves the map unchanged and the worker running; no line folded is a line
\* of another field count.
C10_MalformedLineSkipped ==
    [][\A w \in Workers :
         Len(received'[w]) = Len(received[w]) + 1 =>
            LET b    == received'[w][Len(received'[w])]
                kept == SelectSeq(b, IsTwoFields)
                ref  == ProcessChunk(data[w], kept)
            IN  /\ data'[w] = ref.stat
                /\ (wstate'[w] = "err") = ref.err
                /\ kept = <<>> => (data'[w] = data[w] /\ wstate'[w] = "running")
                /\ \A j \in (Len(applied[w]) + 1)..Len(applied'[w]) :
                      IsTwoFields(input[applied'[w][j]].line)
      ]_vars

\* A worker took a batch whose first line has no two fields and folded the
\* line after it.
C10_Witness ==
    \E w \in Workers : \E p \in 1..Len(received[w]) :
        /\ Len(received[w][p]) >= 2
        /\ ~IsTwoFields(received[w][p][1])
        /\ LinesBefore(published, p - 1) + 2 \in Range(applied[w])
        /\ wstate[w] = "running"


\* C11: on a successful run the line count printed is the number of lines
\* of the source, the skipped lines counted, whatever the batch size, the
\* worker count and the workers' progress; while reading, the count is the
\* number of lines read so far.
C11_LineCountIsLinesRead ==
    /\ (mainpc = "reading" /\ ret # "err") => line_count = readPos
    /\ Merged => line_count = Len(input)
    /\ (ret = "ok" /\ Len(stdout) >= 1) => stdout[1] = ProcessedLine(Len(input))

\* A run has printed its count for a source that holds a skipped line.
C11_Witness ==
    /\ ret = "ok" /\ Len(stdout) >= 1
    /\ \E i \in 1..Len(input) : ~IsTwoFields(input[i].line)

\* The count was printed on a run in which a worker lagged.
C11_WitnessLagged ==
    /\ ret = "ok" /\ Len(stdout) >= 1
    /\ \E w \in Workers : recvErr[w] = "lagged"


\* C12: for an empty input no batch is published, every worker ends on
\* channel closure with an empty map, and the run succeeds: it prints a
\* count of 0, the empty report {} and the success line.
C12_EmptyInput ==
    input = <<>> =>
        /\ published = <<>> /\ tail = 0 /\ line_count = 0
        /\ \A w \in Workers :
             /\ data[w] = EmptyData /\ received[w] = <<>>
             /\ wstate[w] # "err"
             /\ wstate[w] = "ok" => recvErr[w] = "closed"
        /\ ~Failed
        /\ keys = {} /\ result = EmptyData
        /\ mainpc = "exited" =>
             stdout = << <<"Processed ", "0", " lines total">>,
                         <<"{", "}">>,
                         <<"File processed successfully">> >>

\* A two-worker run on the empty input is over.
C12_Witness ==
    input = <<>> /\ num_threads = 2 /\ mainpc = "exited" /\ Len(stdout) = 3


\* The run is over with the report and the success line printed.
Reported == mainpc = "exited" /\ ret = "ok" /\ Len(stdout) = 3

\* The feed is closed, every worker has left its loop (or main's panic has
\* ended the process) and the run is over, Reported or Failed.
AllDone ==
    /\ closed
    /\ Ended /\ (Reported \/ Failed)
    /\ \A w \in Workers : wstate[w] # "running" \/ mainpc = "panicked"

\* C13: for a source without read error, under fair scheduling the feed is
\* eventually closed, every worker eventually leaves its loop and the run
\* eventually is over, Reported or Failed; so no state short of that is a
\* deadlock.  (Each of the three, once true, stays true.)
C13_Terminates == <>(AllRead => AllDone)

\* A run without read error over more batches than the channel holds is
\* over, its workers returned.
C13_Witness ==
    /\ AllRead /\ Reported /\ closed
    /\ Len(published) > Capacity
    /\ \A w \in Workers : wstate[w] = "ok"

\* The lines of a sequence of batches, in order.
RECURSIVE Flatten(_)
Flatten(bs) == IF bs = <<>> THEN <<>> ELSE Head(bs) \o Flatten(Tail(bs))

\* C14: the published batches, concatenated in publication order and
\* followed by the chunk being filled, are the lines read so far, and after
\* the final send of a source without read error they are the input's lines;
\* no published batch is empty or longer than chunk_size, every batch but
\* the last has exactly chunk_size lines, and a batch is undersized only as
\* the final send.
C14_BatchesAreTheInput ==
    /\ Flatten(published) \o chunk = SubSeq(InputLines, 1, line_count)
    /\ Len(chunk) < chunk_size
    /\ \A b \in 1..Len(published) :
         /\ published[b] # <<>>
         /\ Len(published[b]) <= chunk_size
         /\ b < Len(published) => Len(published[b]) = chunk_size
         /\ mainpc = "reading" => Len(published[b]) = chunk_size
    /\ (mainpc # "reading" /\ ret # "err") =>
         /\ chunk = <<>>
         /\ Flatten(published) = InputLines
         /\ published = Batches(InputLines, chunk_size)

\* A finished reading loop whose final send was an undersized batch after a
\* full one.
C14_Witness ==
    /\ mainpc = "closing"
    /\ chunk_size = 2
    /\ Len(published) = 2
    /\ Len(published[1]) = 2 /\ Len(published[2]) = 1

\* C15 as stated: once main has read any worker's aggregate or produced a
\* merged entry, every worker has terminated and the feed is closed.
C15_ReadAfterAllFinished ==
    (joinIdx > 0 \/ thread_datas # <<>> \/ keys # {} \/ DOMAIN result # {}) =>
        /\ closed
        /\ \A w \in Workers : wstate[w] # "running"

\* C15 amended: main reads a worker's aggregate only after the feed is
\* closed and that worker has returned Ok, in thread-id order and while
\* later workers may still run; the aggregate it holds is the worker's final
\* one; the merge loop produces entries only after all num_threads workers
\* have been joined.
C15_MergeAfterAllJoined ==
    /\ Len(thread_datas) = joinIdx
    /\ joinIdx > 0 => closed
    /\ \A w \in Workers :
         w < joinIdx => wstate[w] = "ok" /\ thread_datas[w + 1] = data[w]
    /\ keys = UNION {DOMAIN data[w] : w \in {v \in Workers : v < joinIdx}}
    /\ (Merged \/ mainpc = "merged" \/ DOMAIN result # {}) =>
         /\ joinIdx = num_threads
         /\ closed
         /\ \A w \in Workers : wstate[w] = "ok"

\* Two workers joined and merged entries produced.
C15_Witness ==
    /\ num_threads = 2
    /\ mainpc = "merged"
    /\ DOMAIN result # {}
    /\ \A w \in Workers : data[w] # EmptyData

\* The lines worker w has folded, in the order it folded them.
AppliedLines(w) == [j \in 1..Len(applied[w]) |-> input[applied[w][j]].line]

\* Every line that occurs in some input.
KnownLines == LineSet \cup {Scenario[i].line : i \in 1..Len(Scenario)}

\* IsTwoFields, WellFormed, KeyOf and ValOf of the known lines, as a table.
LineFacts ==
    {[line |-> l,
      two  |-> IsTwoFields(l),
      wf   |-> WellFormed(l),
      key  |-> KeyOf(l),
      val  |-> IF WellFormed(l) THEN ValOf(l) ELSE 0] : l \in KnownLines}

FactsOf(l) == CHOOSE r \in LineFacts : r.line = l

\* The values of key k among the well-formed of the first n of lines, in
\* order.
RECURSIVE ValuesOfKey(_, _, _)
ValuesOfKey(lines, k, n) ==
    IF n = 0 THEN <<>>
    ELSE LET f == FactsOf(lines[n])
         IN  IF f.wf /\ f.key = k
             THEN Append(ValuesOfKey(lines, k, n - 1), f.val)
             ELSE ValuesOfKey(lines, k, n - 1)

RECURSIVE SeqSum(_)
SeqSum(vs) == IF vs = <<>> THEN 0 ELSE Head(vs) + SeqSum(Tail(vs))

\* C16: in every reachable state the keys of a worker's map are the keys of
\* the lines it has folded, every folded line is well-formed, and the Stat
\* of a key has count >= 1 equal to the number of folded lines with that
\* key, min their smallest and max their largest value (so min <= max) and
\* sum their sum; no Stat has count 0.
C16_StatOfAppliedLines ==
    \A w \in Workers :
        LET lines == AppliedLines(w)
        IN  /\ \A j \in 1..Len(lines) :
                 LET f == FactsOf(lines[j])
                 IN  f.wf /\ f.key \in DOMAIN data[w]
            /\ \A k \in DOMAIN data[w] :
                 LET vs == ValuesOfKey(lines, k, Len(lines))
                     st == data[w][k]
                 IN  /\ st.count >= 1
                     /\ st.count = Len(vs)
                     /\ st.min \in Range(vs) /\ \A v \in Range(vs) : st.min <= v
                     /\ st.max \in Range(vs) /\ \A v \in Range(vs) : st.max >= v
                     /\ st.sum = SeqSum(vs)
                     /\ st.min <= st.max

\* A worker that has folded two lines of one key with different values.
C16_Witness ==
    \E w \in Workers : \E k \in DOMAIN data[w] :
        /\ data[w][k].count = 2
        /\ data[w][k].min < data[w][k].max
        /\ data[w][k].min = -30

-----------------------------------------------------------------------------
(* process_chunk and the merge over a partition of the batches *)

\* The batches of the input's lines, as the reading loop cuts them.
AllBatches == Batches(InputLines, chunk_size)

\* The next batch goes to worker w alone, which folds it with
\* process_chunk; a batch process_chunk fails on is not dealt.
Deal(w) ==
    /\ mainpc = "reading"
    /\ tail < Len(AllBatches)
    /\ LET b  == AllBatches[tail + 1]
           pc == ProcessChunk(data[w], b)
       IN  /\ ~pc.err
           /\ data' = [data EXCEPT ![w] = pc.stat]
           /\ received' = [received EXCEPT ![w] = Append(@, b)]
           /\ published' = Append(published, b)
    /\ tail' = tail + 1
    /\ UNCHANGED <<input, chunk_size, num_threads, mainpc, readPos, chunk,
                   line_count, buffer, closed, next, wstate, joinIdx, keys,
                   thread_datas, result, ret, stdout, stderr, recvErr,
                   applied>>

\* All batches dealt: the join loop's collection and the merge loop over
\* the workers' maps.
MergePartials ==
    /\ mainpc = "reading"
    /\ tail = Len(AllBatches)
    /\ thread_datas' = [i \in 1..num_threads |-> data[i - 1]]
    /\ keys' = UNION {DOMAIN data[w] : w \in Workers}
    /\ result' = Merge(keys', thread_datas')
    /\ mainpc' = "merged"
    /\ UNCHANGED <<input, chunk_size, num_threads, readPos, chunk, line_count,
                   tail, buffer, closed, next, wstate, data, joinIdx, ret,
                   stdout, stderr, recvErr, published, received, applied>>

PartitionNext == (\E w \in Workers : Deal(w)) \/ MergePartials

PartitionSpec == Init /\ [][PartitionNext]_vars

\* C17: for every way of dealing the batches to the workers, the merged
\* accumulator of every key has the min, max, sum and count of the one
\* aggregate that folds all lines.
C17_PartitionSameAsOneFold ==
    mainpc = "merged" =>
        /\ keys = DOMAIN WholeInputRun.stat
        /\ \A k \in keys :
             MergeKey(k, thread_datas, num_threads) = WholeInputRun.stat[k]

\* What does hold over every partition: the keys, sum and count are those of
\* the one aggregate, min and max are its min and max clamped to 0.
PartitionAgreesUpToZero ==
    mainpc = "merged" =>
        /\ keys = DOMAIN WholeInputRun.stat
        /\ \A k \in keys :
             LET m == MergeKey(k, thread_datas, num_threads)
                 o == WholeInputRun.stat[k]
             IN  /\ m.sum = o.sum
                 /\ m.count = o.count
                 /\ m.min = (IF o.min < 0 THEN o.min ELSE 0)
                 /\ m.max = (IF o.max > 0 THEN o.max ELSE 0)

-----------------------------------------------------------------------------

\* What a loop that takes the first m source lines in order folds: the
\* positions of the well-formed lines before the first line whose number
\* does not parse, and whether there is such a line.
RECURSIVE FoldedOf(_)
FoldedOf(m) ==
    IF m = 0 THEN [folded |-> <<>>, err |-> FALSE]
    ELSE LET p == FoldedOf(m - 1)
             f == FactsOf(input[m].line)
         IN  IF p.err \/ ~f.two THEN p
             ELSE IF ~f.wf THEN [folded |-> p.folded, err |-> TRUE]
             ELSE [folded |-> Append(p.folded, m), err |-> FALSE]

\* Worker w has taken exactly the first next[w] published batches, folded
\* their lines in order, and is out of its loop with Ok exactly when a recv
\* failed, by closure or by lag.
PrefixApplied(w) ==
    LET e == FoldedOf(LinesBefore(published, next[w]))
    IN  /\ next[w] <= Len(published)
        /\ received[w] = SubSeq(published, 1, next[w])
        /\ applied[w] = e.folded
        /\ (wstate[w] = "err") = e.err
        /\ (wstate[w] = "ok") = (recvErr[w] \in {"closed", "lagged"})
        /\ recvErr[w] = "closed" => closed /\ next[w] = tail
        /\ recvErr[w] = "lagged" => tail - next[w] > Capacity
        /\ w < joinIdx => wstate[w] = "ok" /\ thread_datas[w + 1] = data[w]

\* Worker w takes no batch in this step.
NoBatchTaken(w) ==
    /\ next'[w] = next[w]
    /\ data'[w] = data[w]
    /\ received'[w] = received[w]
    /\ applied'[w] = applied[w]

\* C18: each worker folds a gap-free prefix of the published batches in
\* publication order; its loop ends at the first recv failure, feed closed
\* or more than Capacity batches behind; from then on it takes no batch, its
\* state never changes, and the aggregate it had is what main receives as
\* the task's Ok result.
C18_PrefixThenStop ==
    /\ [](\A w \in Workers : PrefixApplied(w))
    /\ [][\A w \in Workers :
            /\ (wstate[w] # "running" \/ tail - next[w] > Capacity)
                 => NoBatchTaken(w)
            /\ wstate[w] # "running"
                 => wstate'[w] = wstate[w] /\ recvErr'[w] = recvErr[w]]_vars

\* A worker that fell more than Capacity batches behind has left its loop
\* with Ok and main has taken its aggregate, while another worker went on
\* to the closure.
C18_Witness ==
    /\ num_threads = 2
    /\ joinIdx = 2
    /\ \E w \in Workers :
         /\ recvErr[w] = "lagged" /\ wstate[w] = "ok"
         /\ thread_datas[w + 1] = data[w]
    /\ \E w \in Workers :
         /\ recvErr[w] = "closed" /\ received[w] = published
         /\ Len(received[w]) > Capacity

\* No worker fell behind the channel: every loop ended on closure.
NoLag == \A w \in Workers : recvErr[w] = "closed"

\* The values of key k among the input's lines, in order.
InputValues(k) == ValuesOfKey(InputLines, k, Len(input))

\* C19: in a successful run in which no worker lagged, every worker's map is
\* the same, that of the whole input, and for every key the merged
\* accumulator's count is num_threads times the number of the key's
\* well-formed lines in the input and its sum num_threads times the sum of
\* their values.
C19_AllWorkersHoldTheWholeInput ==
    (Merged /\ NoLag) =>
        /\ \A w \in Workers : data[w] = WholeInputRun.stat
        /\ keys = DOMAIN WholeInputRun.stat
        /\ \A k \in keys :
             LET m == MergeKey(k, thread_datas, num_threads)
             IN  /\ m.count = num_threads * Len(InputValues(k))
                 /\ m.sum = num_threads * SeqSum(InputValues(k))
                 /\ result[k].mean = Quot(m.sum, m.count)

\* Two workers, neither lagging, merged over a key with two lines.
C19_Witness ==
    /\ Merged /\ NoLag
    /\ num_threads = 2
    /\ \E k \in keys :
         /\ Len(InputValues(k)) = 2
         /\ MergeKey(k, thread_datas, num_threads).count = 4

\* The Stats of key k in the maps main collected.
HeldStats(k) ==
    {thread_datas[i][k] : i \in {j \in 1..Len(thread_datas) : k \in DOMAIN thread_datas[j]}}

\* C20: every entry of the merged result has min <= 0 <= max: its min is the
\* smaller of 0 and the minima of the workers that hold the key, its max the
\* larger of 0 and their maxima.
C20_MergedClampedToZero ==
    (Merged \/ mainpc = "merged") =>
        \A k \in DOMAIN result :
            LET mins == {s.min : s \in HeldStats(k)} \cup {0}
                maxs == {s.max : s \in HeldStats(k)} \cup {0}
            IN  /\ result[k].min <= 0 /\ 0 <= result[k].max
                /\ result[k].min \in mins /\ \A v \in mins : result[k].min <= v
                /\ result[k].max \in maxs /\ \A v \in maxs : result[k].max >= v

\* A merged key whose values are all positive, reported with min 0; and one
\* whose values are all negative, reported with max 0.
C20_Witness ==
    /\ ret = "ok"
    /\ \E k \in DOMAIN result :
         /\ result[k].min = 0
         /\ \A s \in HeldStats(k) : s.min > 0
    /\ \E k \in DOMAIN result :
         /\ result[k].max = 0
         /\ \A s \in HeldStats(k) : s.max < 0

=============================================================================
